---- MODULE Spec2Model ----
(***************************************************************************)
(* A model of the wedding-assistant chat server (src/server.js): the       *)
(* event-data cache with its TTL, the rebuild from the four remote sheets, *)
(* the phone-based booking lookup of POST /api/chat, and the three replies.*)
(*                                                                         *)
(* Representation.  A JavaScript string is a sequence of one-character     *)
(* strings (<<"9", "1">> is "91"), so that the regular expression, the     *)
(* digit stripping, endsWith and toLowerCase are computed character by     *)
(* character.  The fixed pieces of a template literal are kept as single   *)
(* elements (<<"Wedding: ">>); a text denotes the concatenation of its     *)
(* elements.  null is the empty sequence and a present value v is <<v>>.   *)
(* undefined (a missing CSV column) is the one-element text Undefined,     *)
(* which is also how a template literal renders it.                        *)
(***************************************************************************)
EXTENDS Integers, Sequences, FiniteSets, TLC

VARIABLES
    env,              \* process.env: which of the four sheet URLs are set
    remote,           \* the rows the four remote sheets hold right now
    clock,            \* Date.now(), in ms since the process started
    cachedEventData,  \* the cached snapshot: null (<<>>) or <<ref>>
    lastLoadedMs,     \* the load timestamp of the cache
    req               \* the chat requests: each one's position and locals

vars == <<env, remote, clock, cachedEventData, lastLoadedMs, req>>

---------------------------------------------------------------------------
(* Bounds of the model.                                                    *)

MaxRequests == 2
MaxTicks == 2
MaxRoster == 2
MaxTokens == 3

(* Program constants.                                                      *)

CACHE_TTL_MS == 5 * 60 * 1000
MinDigits == 10
MaxDigits == 13
MaxMessageLen == 500
FailureStatus == 500
OkStatus == 200

(* The clock advances in steps of half the TTL, so an age of exactly the   *)
(* TTL, and ages on both sides of it, are reached.                         *)
TickMs == CACHE_TTL_MS \div 2

ReqIds == 1..MaxRequests

---------------------------------------------------------------------------
(* JavaScript values.                                                      *)

Null == <<>>
Undefined == <<"undefined">>

Min(a, b) == IF a <= b THEN a ELSE b

Digits == {"0", "1", "2", "3", "4", "5", "6", "7", "8", "9"}
IsDigit(c) == c \in Digits

\* A string is truthy unless it is undefined or empty.
Truthy(s) == s # Undefined /\ s # <<>>

\* a || b on strings.
OrElse(a, b) == IF Truthy(a) THEN a ELSE b

\* The characters of a string are those a string of this module can hold,
\* U+0000 to U+00FF.  toLowerCase lowers every cased letter that has a
\* lower-case form: A to Z and the capital letters of Latin-1 (U+00C0 to
\* U+00DE without the multiplication sign); each lowers to one character
\* of the same range, and every other character is left as it is.
UpperChars == <<"A", "B", "C", "D", "E", "F", "G", "H", "I", "J", "K", "L", "M",
                "N", "O", "P", "Q", "R", "S", "T", "U", "V", "W", "X", "Y", "Z",
                "À", "Á", "Â", "Ã", "Ä", "Å", "Æ", "Ç", "È", "É", "Ê", "Ë", "Ì",
                "Í", "Î", "Ï", "Ð", "Ñ", "Ò", "Ó", "Ô", "Õ", "Ö", "Ø", "Ù", "Ú",
                "Û", "Ü", "Ý", "Þ">>
LowerChars == <<"a", "b", "c", "d", "e", "f", "g", "h", "i", "j", "k", "l", "m",
                "n", "o", "p", "q", "r", "s", "t", "u", "v", "w", "x", "y", "z",
                "à", "á", "â", "ã", "ä", "å", "æ", "ç", "è", "é", "ê", "ë", "ì",
                "í", "î", "ï", "ð", "ñ", "ò", "ó", "ô", "õ", "ö", "ø", "ù", "ú",
                "û", "ü", "ý", "þ">>

ToLowerChar(c) ==
    IF \E i \in 1..Len(UpperChars) : UpperChars[i] = c
    THEN LowerChars[CHOOSE i \in 1..Len(UpperChars) : UpperChars[i] = c]
    ELSE c

toLowerCase(s) == [i \in 1..Len(s) |-> ToLowerChar(s[i])]

\* s.endsWith(q)
endsWith(s, q) ==
    /\ Len(q) <= Len(s)
    /\ SubSeq(s, Len(s) - Len(q) + 1, Len(s)) = q

\* s.slice(0, n)
slice0(s, n) == SubSeq(s, 1, Min(Len(s), n))

\* The white space String.prototype.trim removes, among the characters of a
\* string: blank, tab, line feed, form feed, carriage return, and, written
\* as themselves, the vertical tab U+000B and the no-break space U+00A0.
WhiteSpace == {" ", "\t", "\n", "\f", "\r", "", " "}

RECURSIVE trimStart(_)
trimStart(s) ==
    IF s # <<>> /\ Head(s) \in WhiteSpace THEN trimStart(Tail(s)) ELSE s

RECURSIVE trimEnd(_)
trimEnd(s) ==
    IF s # <<>> /\ s[Len(s)] \in WhiteSpace
    THEN trimEnd(SubSeq(s, 1, Len(s) - 1))
    ELSE s

\* s.trim()
trim(s) == trimEnd(trimStart(s))

\* s?.trim()
OptTrim(s) == IF s = Undefined THEN Undefined ELSE trim(s)

RECURSIVE Concat(_)
Concat(parts) ==
    IF parts = <<>> THEN <<>> ELSE Head(parts) \o Concat(Tail(parts))

\* lines.join("\n")
RECURSIVE JoinLines(_)
JoinLines(lines) ==
    IF lines = <<>> THEN <<>>
    ELSE IF Len(lines) = 1 THEN lines[1]
    ELSE lines[1] \o <<"\n">> \o JoinLines(Tail(lines))

---------------------------------------------------------------------------
(* The booking lookup.                                                     *)

\* normalizePhone: keep only the digits; "" for a missing or empty phone.
normalizePhone(raw) ==
    IF ~Truthy(raw) THEN <<>> ELSE SelectSeq(raw, IsDigit)

\* The number of consecutive digits of msg from position i on.
RECURSIVE DigitRun(_, _)
DigitRun(msg, i) ==
    IF i > Len(msg) \/ ~IsDigit(msg[i]) THEN 0 ELSE 1 + DigitRun(msg, i + 1)

\* A variant whose digit count stops at the minimum: /\+?\d{10}/.
RegexAtShort(msg, i) ==
    LET first == IF msg[i] = "+" THEN i + 1 ELSE i
        n == DigitRun(msg, first)
    IN  IF n >= MinDigits
        THEN <<SubSeq(msg, i, first + MinDigits - 1)>>
        ELSE Null

\* /\+?\d{10,13}/ tried at position i: the matched text, or null.  The
\* optional + and the digit count are greedy.
RegexAt(msg, i) ==
    LET first == IF msg[i] = "+" THEN i + 1 ELSE i
        n == DigitRun(msg, first)
    IN  IF n >= MinDigits
        THEN <<SubSeq(msg, i, first + Min(n, MaxDigits) - 1)>>
        ELSE Null

\* A variant that skips blanks inside the number.
PhoneMatchLoose(msg) ==
    LET packed == SelectSeq(msg, LAMBDA c : c # " ")
        hits == {i \in 1..Len(packed) : RegexAt(packed, i) # Null}
    IN  IF hits = {} THEN Null
        ELSE RegexAt(packed, CHOOSE i \in hits : \A j \in hits : i <= j)

\* userMessage.match(phoneRegex): the leftmost match, or null.
PhoneMatch(msg) ==
    LET hits == {i \in 1..Len(msg) : RegexAt(msg, i) # Null}
    IN  IF hits = {} THEN Null
        ELSE RegexAt(msg, CHOOSE i \in hits : \A j \in hits : i <= j)

\* A variant that demands the stored phone to equal the query.
GuestMatchesExact(g, normalizedQuery) ==
    LET normalizedGuestPhone == normalizePhone(g.phone)
    IN  normalizedGuestPhone # <<>> /\ normalizedGuestPhone = normalizedQuery

\* The predicate given to guests.find.
GuestMatches(g, normalizedQuery) ==
    LET normalizedGuestPhone == normalizePhone(g.phone)
    IN  /\ normalizedGuestPhone # <<>>
        /\ endsWith(normalizedGuestPhone, normalizedQuery)

\* A variant that returns the last element satisfying the predicate.
FindLastGuest(guests, normalizedQuery) ==
    LET hits == {i \in 1..Len(guests) : GuestMatches(guests[i], normalizedQuery)}
    IN  IF hits = {} THEN Null
        ELSE <<guests[CHOOSE i \in hits : \A j \in hits : j <= i]>>

\* EVENT_DATA.guests.find(...): the first matching guest, or null.
FindGuest(guests, normalizedQuery) ==
    LET hits == {i \in 1..Len(guests) : GuestMatches(guests[i], normalizedQuery)}
    IN  IF hits = {} THEN Null
        ELSE <<guests[CHOOSE i \in hits : \A j \in hits : i <= j]>>

\* The lookup of the handler: guestInfo, given phoneMatch and the roster.
LookupGuest(phoneMatch, guests) ==
    IF phoneMatch # Null /\ Len(guests) > 0
    THEN FindGuest(guests, normalizePhone(phoneMatch[1]))
    ELSE Null

\* Whether the handler runs guests.find at all.
RosterConsulted(phoneMatch, guests) == phoneMatch # Null /\ Len(guests) > 0

\* EVENT_DATA.hotels.find(h => h.name.toLowerCase() === hotelName?.toLowerCase()):
\* <<"throw">> when a hotel without a name is reached before a match,
\* else <<"ok", null or <<hotel>> >>.
RECURSIVE FindHotel(_, _)
FindHotel(hotels, hotelName) ==
    IF hotels = <<>> THEN <<"ok", Null>>
    ELSE IF Head(hotels).name = Undefined THEN <<"throw">>
    ELSE IF hotelName # Undefined
            /\ toLowerCase(Head(hotels).name) = toLowerCase(hotelName)
         THEN <<"ok", <<Head(hotels)>> >>
    ELSE FindHotel(Tail(hotels), hotelName)

---------------------------------------------------------------------------
(* buildEventDataFromSheets: the snapshot assembled from the parsed rows.  *)

\* The value the loop over metaRows leaves in meta[f]: the value of the
\* last row whose field is f (row.value ?? ""), undefined without one.
MetaGet(metaRows, f) ==
    LET hits == {i \in 1..Len(metaRows) : metaRows[i].field = f}
    IN  IF hits = {} THEN Undefined
        ELSE LET v == metaRows[CHOOSE i \in hits : \A j \in hits : j <= i].value
             IN  IF v = Undefined THEN <<>> ELSE v

MapEvent(r) ==
    [key |-> r.key, name |-> r.name, date |-> r.date, time |-> r.time,
     venue |-> r.venue, address |-> r.address, mapLink |-> r.mapLink,
     dressCode |-> r.dressCode]

MapHotel(h) ==
    [name |-> h.name, type |-> h.type, address |-> h.address,
     mapLink |-> h.mapLink, priceRange |-> h.priceRange,
     bookingLink |-> h.bookingLink, contactPerson |-> h.contactPerson,
     contactPhone |-> h.contactPhone, notes |-> h.notes]

MapGuest(g) ==
    [phone |-> g.phone, name |-> g.name, hotelName |-> g.hotelName,
     roomNo |-> g.roomNo, notes |-> g.notes]

buildEventData(metaRows, eventRows, hotelsRows, guestsRows) ==
    [coupleNames |-> OrElse(MetaGet(metaRows, "coupleNames"), <<>>),
     weddingName |-> OrElse(MetaGet(metaRows, "weddingName"), <<>>),
     city |-> OrElse(MetaGet(metaRows, "city"), <<>>),
     events |-> [i \in 1..Len(eventRows) |-> MapEvent(eventRows[i])],
     hotels |-> [i \in 1..Len(hotelsRows) |-> MapHotel(hotelsRows[i])],
     guests |-> [i \in 1..Len(guestsRows) |-> MapGuest(guestsRows[i])],
     stay |->
        IF Truthy(MetaGet(metaRows, "hotelName"))
        THEN <<[hotelName |-> MetaGet(metaRows, "hotelName"),
                address |-> MetaGet(metaRows, "hotelAddress"),
                mapLink |-> MetaGet(metaRows, "hotelMapLink"),
                checkIn |-> MetaGet(metaRows, "hotelCheckIn"),
                checkOut |-> MetaGet(metaRows, "hotelCheckOut"),
                contactPerson |-> MetaGet(metaRows, "hotelContactPerson"),
                contactPhone |-> MetaGet(metaRows, "hotelContactPhone")]>>
        ELSE Null,
     emergencyContact |->
        IF Truthy(MetaGet(metaRows, "emergencyName"))
        THEN <<[name |-> MetaGet(metaRows, "emergencyName"),
                phone |-> MetaGet(metaRows, "emergencyPhone")]>>
        ELSE Null]

---------------------------------------------------------------------------
(* buildContextFromEventData: the context document of the prompt.          *)

EventLine(e, idx) ==
    Concat(<< <<ToString(idx), ". ">>, e.name, <<" (">>, e.key, <<") on ">>,
              e.date, <<" at ">>, e.time, <<", Venue: ">>, e.venue,
              <<", Address: ">>, e.address, <<", Map: ">>, e.mapLink,
              <<", Dress code: ">>, e.dressCode >>)

StayLine(s) ==
    Concat(<< <<"STAY: Hotel ">>, s.hotelName, <<", ">>, s.address,
              <<", Map: ">>, s.mapLink, <<", Check-in: ">>, s.checkIn,
              <<", Check-out: ">>, s.checkOut, <<", Contact: ">>,
              s.contactPerson, <<" (">>, s.contactPhone, <<").">> >>)

EmergencyLine(c) ==
    Concat(<< <<"EMERGENCY CONTACT: ">>, c.name, <<", Phone: ">>, c.phone,
              <<".">> >>)

HotelLine(h, idx) ==
    Concat(<< <<ToString(idx), ". ">>, h.name, <<" (">>,
              OrElse(h.type, <<"Hotel">>), <<") - Address: ">>, h.address,
              <<". Map: ">>, h.mapLink, <<". Price: ">>, h.priceRange,
              <<". Booking: ">>, h.bookingLink, <<". Contact: ">>,
              h.contactPerson, <<" (">>, h.contactPhone, <<"). Notes: ">>,
              h.notes >>)

GuestLine(g, idx) ==
    Concat(<< <<ToString(idx), ". ">>, g.name, <<", Phone: ">>, g.phone,
              <<", Hotel: ">>, g.hotelName, <<", Room: ">>, g.roomNo,
              <<", Notes: ">>, g.notes >>)

\* A variant that lists the guests after the hotels.
ContextLinesWithGuests(EVENT_DATA) ==
    << Concat(<< <<"Wedding: ">>, EVENT_DATA.weddingName, <<" in ">>,
                 EVENT_DATA.city >>),
       <<"Couple: ">> \o EVENT_DATA.coupleNames >>
    \o [i \in 1..Len(EVENT_DATA.events) |-> EventLine(EVENT_DATA.events[i], i)]
    \o [i \in 1..Len(EVENT_DATA.hotels) |-> HotelLine(EVENT_DATA.hotels[i], i)]
    \o << <<"GUESTS:">> >>
    \o [i \in 1..Len(EVENT_DATA.guests) |-> GuestLine(EVENT_DATA.guests[i], i)]

\* The lines array, in the order of the pushes.
ContextLines(EVENT_DATA) ==
    << Concat(<< <<"Wedding: ">>, EVENT_DATA.weddingName, <<" in ">>,
                 EVENT_DATA.city >>),
       <<"Couple: ">> \o EVENT_DATA.coupleNames,
       <<>>,
       <<"EVENT SCHEDULE:">> >>
    \o [i \in 1..Len(EVENT_DATA.events) |-> EventLine(EVENT_DATA.events[i], i)]
    \o << <<>> >>
    \o (IF EVENT_DATA.stay # Null
        THEN << StayLine(EVENT_DATA.stay[1]) >> ELSE <<>>)
    \o (IF EVENT_DATA.emergencyContact # Null
        THEN << EmergencyLine(EVENT_DATA.emergencyContact[1]) >> ELSE <<>>)
    \o << <<>> >>
    \o (IF Len(EVENT_DATA.hotels) > 0
        THEN << <<"HOTEL OPTIONS:">> >>
             \o [i \in 1..Len(EVENT_DATA.hotels) |->
                    HotelLine(EVENT_DATA.hotels[i], i)]
        ELSE <<>>)

buildContextFromEventData(EVENT_DATA) == JoinLines(ContextLines(EVENT_DATA))

---------------------------------------------------------------------------
(* The replies and the prompt.  The fixed texts are the source's, without   *)
(* their emoji; the rules of the system prompt are abridged.  A template    *)
(* literal is written with the line feeds that open and close it, and with  *)
(* a blank next to an interpolated value as an element of its own, so that  *)
(* trim acts on the whole text as it does in the source.                    *)

NoBookingReply ==
    <<"<strong>Hotel Booking:</strong>\nAapke liye abhi tak koi hotel booking nahi hui hai.\nAgar aapko stay arrange karwana hai, please directly family se contact karein.">>

ApologyReply ==
    <<"Oops, Babli Bua ko data load karne mein issue aa gaya. Please thodi der baad try karo.">>

FallbackReply == <<"Sorry, abhi main answer nahi de paa rahi hoon.">>

\* hotel?.f : undefined when no hotel was found.
HotelField(hotel, f) == IF hotel = Null THEN Undefined ELSE hotel[1][f]

\* The booking reply: the template literal, trimmed as a whole, so that white
\* space at the end of the interpolated notes is cut with the closing line
\* feed.
BookingReply(guestInfo, hotel) ==
    trim(Concat(<< <<"\n">>,
              <<"<strong>Booking Found for ">>, guestInfo.name,
              <<":</strong>\n<strong>Hotel:</strong> ">>,
              OrElse(HotelField(hotel, "name"),
                     OrElse(guestInfo.hotelName, <<"N/A">>)),
              <<"\n<strong>Room:</strong> ">>,
              OrElse(guestInfo.roomNo, <<"N/A">>),
              <<"\n<strong>Address:</strong> ">>,
              OrElse(HotelField(hotel, "address"), <<"Address not available">>),
              <<"\n<strong>Map:</strong> ">>,
              OrElse(HotelField(hotel, "mapLink"), <<"Map link not available">>),
              <<"\n<strong>Contact:</strong> ">>,
              OrElse(HotelField(hotel, "contactPerson"), <<"N/A">>),
              <<" (">>,
              OrElse(HotelField(hotel, "contactPhone"), <<"N/A">>),
              <<")\n<strong>Notes:</strong>">>, <<" ">>,
              OrElse(guestInfo.notes,
                     OrElse(HotelField(hotel, "notes"), <<"Enjoy your stay!">>)),
              <<"\n">> >>))

\* The persona and formatting rules; only the wedding name is interpolated.
SystemPrompt(EVENT_DATA) ==
    trim(Concat(<< <<"\n">>,
              <<"You are \"Babli\", a friendly AI wedding assistant for the ">>,
              EVENT_DATA.weddingName,
              <<".\nYou answer only questions about this wedding: ...">>,
              <<"\n">> >>))

UserPrompt(contextString, userMessage) ==
    trim(Concat(<< <<"\n">>,
              <<"Here are all the current wedding details (from Google Sheets):\n\n">>,
              contextString,
              <<"\n\nGuest message: \"">>, userMessage,
              <<"\"\n\nNow answer as per the rules.">>,
              <<"\n">> >>))

\* The messages array given to client.chat.completions.create.
CompletionMessages(EVENT_DATA, contextString, userMessage) ==
    << [role |-> "system", content |-> SystemPrompt(EVENT_DATA)],
       [role |-> "user", content |-> UserPrompt(contextString, userMessage)] >>

---------------------------------------------------------------------------
(* The inputs: sheet contents, environments and chat messages.             *)

TxtMyNumberIs == <<"m", "y", " ", "n", "u", "m", "b", "e", "r", " ", "i", "s", " ">>
TxtCall == <<"c", "a", "l", "l", " ">>
TxtPlease == <<" ", "p", "l", "e", "a", "s", "e">>
TxtHello == <<"h", "e", "l", "l", "o">>
TokPlus == <<"+">>
TokSpace == <<" ">>
Tok91 == <<"9", "1">>
Tok98765 == <<"9", "8", "7", "6", "5">>
Tok43210 == <<"4", "3", "2", "1", "0">>
Ph10 == <<"9", "8", "7", "6", "5", "4", "3", "2", "1", "0">>
Ph12 == <<"9", "1", "9", "8", "7", "6", "5", "4", "3", "2", "1", "0">>
Ph12Dashed == <<"+", "9", "1", "-", "9", "8", "7", "6", "5", "4", "3", "2", "1", "0">>
PhOther == <<"9", "9", "9", "8", "8", "8", "7", "7", "7", "6">>
HotelTaj == <<"T", "a", "j">>
HotelTajLower == <<"t", "a", "j">>
HotelCafe == <<"C", "A", "F", "É">>
HotelCafeLower == <<"c", "a", "f", "é">>

\* "my number is +91 98765 43210"
MsgMyNumber ==
    Concat(<<TxtMyNumberIs, TokPlus, Tok91, TokSpace, Tok98765, TokSpace, Tok43210>>)
\* "my number is +919876543210"
MsgMyNumberPacked == Concat(<<TxtMyNumberIs, TokPlus, Ph12>>)
\* "call 9876543210 please"
MsgCall == Concat(<<TxtCall, Ph10, TxtPlease>>)
\* "hello"
MsgHello == TxtHello

ScenarioMessages == {MsgMyNumber, MsgMyNumberPacked, MsgCall, MsgHello}

\* Messages put together from up to MaxTokens pieces: digit runs of 2, 5
\* and 10 digits, a plus sign and a blank, so that runs below, inside and
\* above the 10 to 13 digits of the pattern, and several of them, occur.
Tokens == {TokPlus, TokSpace, Tok91, Tok98765, Ph10}

TokenSeqs == UNION {[1..n -> Tokens] : n \in 0..MaxTokens}

GeneratedMessages == {Concat(ts) : ts \in TokenSeqs}

RichMessages == ScenarioMessages \cup GeneratedMessages

SmallMessages == {MsgCall, MsgHello}

\* The guests.  A value keeps the white space it has inside a quoted field
\* of the sheet: notes of one blank, and, for the hotel, notes that end with
\* a blank.
GuestAsha ==
    [phone |-> Ph10, name |-> <<"A", "s", "h", "a">>, hotelName |-> HotelTajLower,
     roomNo |-> <<"1", "0", "1">>, notes |-> <<>>]
GuestBina ==
    [phone |-> Ph12Dashed, name |-> <<"B", "i", "n", "a">>, hotelName |-> HotelCafeLower,
     roomNo |-> <<>>, notes |-> <<" ">>]
GuestChand ==
    [phone |-> <<>>, name |-> <<"C", "h", "a", "n", "d">>, hotelName |-> HotelTaj,
     roomNo |-> <<"7">>, notes |-> <<>>]
GuestDev ==
    [phone |-> Undefined, name |-> <<"D", "e", "v">>, hotelName |-> Undefined,
     roomNo |-> Undefined, notes |-> Undefined]
GuestEsha ==
    [phone |-> PhOther, name |-> <<"E", "s", "h", "a">>, hotelName |-> <<>>,
     roomNo |-> <<"9">>, notes |-> <<>>]

GuestPool == {GuestAsha, GuestBina, GuestChand, GuestDev, GuestEsha}

Rosters == UNION {[1..n -> GuestPool] : n \in 0..MaxRoster}

RowTaj ==
    [name |-> HotelTaj, type |-> <<>>, address |-> <<"M", "I">>,
     mapLink |-> <<"m">>, priceRange |-> <<"3">>, bookingLink |-> <<"b">>,
     contactPerson |-> <<"R">>, contactPhone |-> <<"1", "2">>,
     notes |-> <<"n", " ">>]
RowCafe == [RowTaj EXCEPT !.name = HotelCafe]
\* A row of a hotel sheet whose header has no "name" column.
RowNoName == [RowTaj EXCEPT !.name = Undefined]

RowMehendi ==
    [key |-> <<"m">>, name |-> <<"M">>, date |-> <<"1">>, time |-> <<"2">>,
     venue |-> <<"v">>, address |-> <<"a">>, mapLink |-> <<"l">>,
     dressCode |-> <<"g">>]

MetaRowsFull ==
    << [field |-> "weddingName", value |-> <<"W">>],
       [field |-> "city", value |-> <<"J">>],
       [field |-> "emergencyName", value |-> <<"K">>],
       [field |-> "emergencyPhone", value |-> <<"5">>] >>
MetaRowsBare == << [field |-> "weddingName", value |-> <<"V">>] >>

\* The sheets of the rich inputs: every roster, and a hotel sheet in which
\* two hotels are found before the row without a name, one of them by a
\* name that differs in the case of a letter outside A to Z, and the others
\* are not.
RichRemotes ==
    {[meta |-> MetaRowsFull, events |-> <<RowMehendi>>,
      hotels |-> <<RowTaj, RowCafe, RowNoName>>, guests |-> g] : g \in Rosters}

\* The successive contents of the sheets while the server runs: an edit
\* replaces one version by the next, changing the meta, hotel and guest
\* sheets.
SheetVersions ==
    << [meta |-> MetaRowsFull, events |-> <<RowMehendi>>, hotels |-> <<RowTaj>>,
        guests |-> <<GuestAsha>>],
       [meta |-> MetaRowsBare, events |-> <<RowMehendi>>, hotels |-> <<RowNoName>>,
        guests |-> <<GuestDev, GuestBina>>] >>

\* Which of META_CSV_URL, EVENTS_CSV_URL, HOTELS_CSV_URL, GUESTS_CSV_URL
\* are set.
EnvAllSet == [meta |-> TRUE, events |-> TRUE, hotels |-> TRUE, guests |-> TRUE]

Envs ==
    { EnvAllSet,
      [EnvAllSet EXCEPT !.hotels = FALSE, !.guests = FALSE],
      [EnvAllSet EXCEPT !.meta = FALSE],
      [EnvAllSet EXCEPT !.events = FALSE, !.hotels = FALSE] }

\* What the completion API can answer: a content (a text with white space
\* around it, white space alone, the empty text, or none), or a failure.
\* CompletionContent is the text without the white space.
CompletionContent == <<"(completion text)">>
CompletionContents ==
    { <<" ">> \o CompletionContent \o <<"\n">>, <<" ", "\n">>, <<>>, Undefined }
CompletionOutcomes ==
    {<<"content", c>> : c \in CompletionContents} \cup {<<"throw">>}

---------------------------------------------------------------------------
(* The requests.                                                           *)

IdleReq ==
    [pc |-> "idle",          \* idle, fetching, reading, built, loaded,
                             \* completion, done
     userMessage |-> <<>>,
     now |-> 0,              \* getEventData's now
     src |-> "none",         \* the sheet whose fetch is in flight
     fetched |-> <<>>,       \* the fetches issued, in order
     rows |-> [meta |-> <<>>, events |-> <<>>, hotels |-> <<>>, guests |-> <<>>],
     data |-> Null,          \* what buildEventDataFromSheets returned
     EVENT_DATA |-> Null,    \* what getEventData returned to the handler
     phoneMatch |-> Null,
     guestInfo |-> Null,
     scanned |-> FALSE,      \* guests.find was run
     guestsFrom |-> 0,       \* the snapshot object the roster was read from
     hotelsFrom |-> 0,       \* the snapshot object the hotels were read from
     prompt |-> Null,        \* the messages sent to the completion API
     thrownBy |-> "none",    \* config, fetch, body, handler, completion
     status |-> 0,           \* the HTTP status of the response, 0 before it
     reply |-> Null]

\* A variant whose reply names what failed.
FailWithDetail(q, where) ==
    [q EXCEPT !.pc = "done", !.thrownBy = where, !.status = FailureStatus,
              !.reply = <<ApologyReply \o <<" (", where, ")">> >>]

\* The catch block of the handler: HTTP 500 and the fixed apology.
Fail(q, where) ==
    [q EXCEPT !.pc = "done", !.thrownBy = where, !.status = FailureStatus,
              !.reply = <<ApologyReply>>]

\* getEventData rejects: the frames of loadCsv, buildEventDataFromSheets and
\* getEventData are unwound, their locals with them, and the handler's catch
\* block answers.
Rejected(q, where) ==
    Fail([q EXCEPT !.now = 0, !.src = "none", !.rows = IdleReq.rows], where)

\* res.json({reply}): HTTP 200.
Respond(q, reply) ==
    [q EXCEPT !.pc = "done", !.status = OkStatus, !.reply = <<reply>>]

---------------------------------------------------------------------------
(* getEventData and buildEventDataFromSheets.                              *)

\* The cache test of getEventData, with <= for <.
CacheFreshInclusive(now) ==
    cachedEventData # Null /\ now - lastLoadedMs <= CACHE_TTL_MS

\* cachedEventData && now - lastLoadedMs < CACHE_TTL_MS
CacheFresh(now) ==
    cachedEventData # Null /\ now - lastLoadedMs < CACHE_TTL_MS

\* !metaUrl || !eventsUrl
ConfigMissing == ~env.meta \/ ~env.events

\* The sheet fetched after src: meta, events, then the optional hotels and
\* guests when their URL is set; "none" when the loads are over.
NextSource(src) ==
    CASE src = "meta" -> "events"
      [] src = "events" ->
            IF env.hotels THEN "hotels" ELSE IF env.guests THEN "guests" ELSE "none"
      [] src = "hotels" -> IF env.guests THEN "guests" ELSE "none"
      [] OTHER -> "none"

\* The timestamp stored with a snapshot, taken when the rebuild is over.
InstallTimeAtEnd(r) == clock

\* The timestamp stored with a snapshot: the now read when the call began.
InstallTime(r) == req[r].now

\* A request arrives.  The handler truncates the message and calls
\* getEventData, which runs without suspending up to its first await: a
\* fresh cache is returned; otherwise the rebuild starts, throws at once on
\* a missing required URL, and else issues the fetch of the meta sheet.
\* Requests are numbered in the order they arrive.
Arrive(r, msg) ==
    /\ req[r].pc = "idle"
    /\ \A p \in ReqIds : p < r => req[p].pc # "idle"
    /\ LET q == [req[r] EXCEPT !.userMessage = slice0(msg, MaxMessageLen),
                               !.now = clock]
       IN  req' = [req EXCEPT ![r] =
                IF CacheFresh(clock)
                THEN [q EXCEPT !.pc = "loaded", !.EVENT_DATA = cachedEventData]
                ELSE IF ConfigMissing
                THEN Rejected(q, "config")
                ELSE [q EXCEPT !.pc = "fetching", !.src = "meta",
                               !.fetched = <<"meta">>]]
    /\ UNCHANGED <<env, remote, clock, cachedEventData, lastLoadedMs>>

\* loadCsv resumes from await fetch(url) with a response that is ok, and
\* suspends again in await res.text().
FetchOk(r) ==
    /\ req[r].pc = "fetching"
    /\ req' = [req EXCEPT ![r].pc = "reading"]
    /\ UNCHANGED <<env, remote, clock, cachedEventData, lastLoadedMs>>

\* The response is not ok: loadCsv throws, the rebuild and getEventData
\* reject, and the handler's catch block answers.
FetchFail(r) ==
    /\ req[r].pc = "fetching"
    /\ req' = [req EXCEPT ![r] = Rejected(@, "fetch")]
    /\ UNCHANGED <<env, remote, clock, cachedEventData, lastLoadedMs>>

\* loadCsv resumes from await res.text() and returns the records parse
\* makes of the text; the next fetch is issued, or, after the last one, the
\* snapshot is assembled.  parse belongs to the csv-parse package: a sheet
\* is held as the records it returns for the sheet's text.  A snapshot is a
\* new object: obj is its identity, val its contents.
BodyOk(r) ==
    /\ req[r].pc = "reading"
    /\ LET q == req[r]
           rows == [q.rows EXCEPT ![q.src] = remote[q.src]]
           next == NextSource(q.src)
       IN  req' = [req EXCEPT ![r] =
                IF next # "none"
                THEN [q EXCEPT !.pc = "fetching", !.rows = rows, !.src = next,
                               !.fetched = Append(@, next)]
                ELSE [q EXCEPT !.rows = rows, !.src = "none", !.pc = "built",
                               !.data = <<[obj |-> r,
                                           val |-> buildEventData(rows.meta,
                                                      rows.events, rows.hotels,
                                                      rows.guests)]>>]]
    /\ UNCHANGED <<env, remote, clock, cachedEventData, lastLoadedMs>>

\* After an ok response the load still fails: res.text() rejects, or parse
\* throws on the text.  The handler's catch block answers.
BodyFail(r) ==
    /\ req[r].pc = "reading"
    /\ req' = [req EXCEPT ![r] = Rejected(@, "body")]
    /\ UNCHANGED <<env, remote, clock, cachedEventData, lastLoadedMs>>

\* getEventData resumes after the rebuild: it stores the snapshot and the
\* timestamp and returns the snapshot.
Install(r) ==
    /\ req[r].pc = "built"
    /\ cachedEventData' = req[r].data
    /\ lastLoadedMs' = InstallTime(r)
    /\ req' = [req EXCEPT ![r].pc = "loaded", ![r].EVENT_DATA = req[r].data]
    /\ UNCHANGED <<env, remote, clock>>

---------------------------------------------------------------------------
(* The handler after getEventData.                                         *)

\* The snapshot read through the shared cache instead of the local.
EventDataReadShared(r) == cachedEventData[1]

\* The snapshot the handler reads the hotels, the events and the meta
\* fields from: its local EVENT_DATA.
EventDataRead(r) == req[r].EVENT_DATA[1]

\* The snapshot the handler reads the roster from: its local EVENT_DATA.
GuestsRead(r) == req[r].EVENT_DATA[1]

\* A variant that answers the notice whenever a phone is mentioned.
NoBookingAlways(phoneMatch, guestInfo) == phoneMatch # Null

\* phoneMatch && !guestInfo
NoBookingCondition(phoneMatch, guestInfo) ==
    phoneMatch # Null /\ guestInfo = Null

\* The handler resumes with the snapshot and runs, without suspending, to
\* one of: the no-booking notice, the booking reply (or the TypeError of a
\* hotel without a name), or the call of the completion API.
Handle(r) ==
    /\ req[r].pc = "loaded"
    /\ LET q == req[r]
           data == EventDataRead(r).val
           guests == GuestsRead(r).val.guests
           contextString == buildContextFromEventData(data)
           phoneMatch == PhoneMatch(q.userMessage)
           guestInfo == LookupGuest(phoneMatch, guests)
           seen == [q EXCEPT !.phoneMatch = phoneMatch,
                             !.guestInfo = guestInfo,
                             !.scanned = RosterConsulted(phoneMatch, guests),
                             !.guestsFrom = GuestsRead(r).obj,
                             !.hotelsFrom = EventDataRead(r).obj]
       IN  req' = [req EXCEPT ![r] =
                IF NoBookingCondition(phoneMatch, guestInfo)
                THEN Respond(seen, NoBookingReply)
                ELSE IF guestInfo # Null
                THEN LET found == FindHotel(data.hotels, guestInfo[1].hotelName)
                     IN  IF found[1] = "throw"
                         THEN Fail(seen, "handler")
                         ELSE Respond(seen, BookingReply(guestInfo[1], found[2]))
                ELSE [seen EXCEPT !.pc = "completion",
                                  !.prompt = <<CompletionMessages(data,
                                                 contextString, q.userMessage)>>]]
    /\ UNCHANGED <<env, remote, clock, cachedEventData, lastLoadedMs>>

\* The completion API answers: content?.trim() || the fallback text is the
\* reply; or it throws, and the catch block answers.
CompletionReturn(r, out) ==
    /\ req[r].pc = "completion"
    /\ req' = [req EXCEPT ![r] =
            IF out[1] = "throw"
            THEN Fail(@, "completion")
            ELSE Respond(@, OrElse(OptTrim(out[2]), FallbackReply))]
    /\ UNCHANGED <<env, remote, clock, cachedEventData, lastLoadedMs>>

---------------------------------------------------------------------------
(* The environment of the server.                                          *)

\* Time passes.
Tick ==
    /\ clock + TickMs <= MaxTicks * TickMs
    /\ clock' = clock + TickMs
    /\ UNCHANGED <<env, remote, cachedEventData, lastLoadedMs, req>>

\* The sheets are edited.
RemoteChange ==
    /\ \E i \in 1..(Len(SheetVersions) - 1) :
          remote = SheetVersions[i] /\ remote' = SheetVersions[i + 1]
    /\ UNCHANGED <<env, clock, cachedEventData, lastLoadedMs, req>>

---------------------------------------------------------------------------
(* The server: concurrent requests, the cache, the clock and the sheets.   *)

Init ==
    /\ env \in Envs
    /\ remote = SheetVersions[1]
    /\ clock = 0
    /\ cachedEventData = Null
    /\ lastLoadedMs = 0
    /\ req = [r \in ReqIds |-> IdleReq]

Next ==
    \/ \E r \in ReqIds, msg \in SmallMessages : Arrive(r, msg)
    \/ \E r \in ReqIds : FetchOk(r)
    \/ \E r \in ReqIds : FetchFail(r)
    \/ \E r \in ReqIds : BodyOk(r)
    \/ \E r \in ReqIds : BodyFail(r)
    \/ \E r \in ReqIds : Install(r)
    \/ \E r \in ReqIds : Handle(r)
    \/ \E r \in ReqIds, out \in CompletionOutcomes : CompletionReturn(r, out)
    \/ Tick
    \/ RemoteChange

Spec == Init /\ [][Next]_vars

(* The cache alone: the requests up to the return of getEventData.  What   *)
(* the handler does afterwards reads the snapshot it was given and writes  *)
(* neither the cache nor its timestamp, so the message plays no part.      *)

NextCache ==
    \/ \E r \in ReqIds : Arrive(r, MsgHello)
    \/ \E r \in ReqIds : FetchOk(r)
    \/ \E r \in ReqIds : FetchFail(r)
    \/ \E r \in ReqIds : BodyOk(r)
    \/ \E r \in ReqIds : BodyFail(r)
    \/ \E r \in ReqIds : Install(r)
    \/ Tick
    \/ RemoteChange

SpecCache == Init /\ [][NextCache]_vars

(* The handler on one loaded snapshot: the first request has just received *)
(* from getEventData the snapshot built from the sheets, and its message   *)
(* and the sheets range over the rich inputs.                              *)

InitResolve ==
    /\ env = EnvAllSet
    /\ remote \in RichRemotes
    /\ clock = 0
    /\ lastLoadedMs = 0
    /\ cachedEventData =
          <<[obj |-> 1, val |-> buildEventData(remote.meta, remote.events,
                                               remote.hotels, remote.guests)]>>
    /\ \E msg \in RichMessages :
          req = [r \in ReqIds |->
                    IF r = 1
                    THEN [IdleReq EXCEPT
                            !.pc = "loaded",
                            !.userMessage = slice0(msg, MaxMessageLen),
                            !.fetched = <<"meta", "events", "hotels", "guests">>,
                            !.rows = remote,
                            !.data = cachedEventData,
                            !.EVENT_DATA = cachedEventData]
                    ELSE IdleReq]

NextResolve == \E r \in ReqIds : Handle(r)

SpecResolve == InitResolve /\ [][NextResolve]_vars

---------------------------------------------------------------------------
(* The vocabulary of the properties, stated apart from the handler's own   *)
(* operators.                                                              *)

\* A phone with its non-digits stripped; a missing phone has no digits.
StrippedPhone(phone) ==
    IF phone = Undefined THEN <<>> ELSE SelectSeq(phone, LAMBDA c : c \in Digits)

\* q is a trailing substring of s.
IsSuffixOf(q, s) == \E k \in 0..Len(s) : SubSeq(s, k + 1, Len(s)) = q

\* The message holds 10 consecutive digits somewhere (hence a run of 10 to
\* 13 digits).
HasPhoneRun(msg) ==
    \E i \in 1..Len(msg) :
        /\ i + MinDigits - 1 <= Len(msg)
        /\ \A j \in i..(i + MinDigits - 1) : msg[j] \in Digits

\* The request's handler has run on a snapshot.
Handled(r) == req[r].guestsFrom # 0

\* The roster of the snapshot the request was given.
RosterOf(r) == req[r].EVENT_DATA[1].val.guests

\* The positions of the roster whose stripped phone ends with the query p.
MatchingPositions(guests, p) ==
    {i \in 1..Len(guests) : IsSuffixOf(p, StrippedPhone(guests[i].phone))}

Lowest(S) == CHOOSE i \in S : \A j \in S : i <= j

\* The rosters obtained by reordering guests.
Reorderings(guests) ==
    {[i \in 1..Len(guests) |-> guests[f[i]]] : f \in Permutations(1..Len(guests))}

\* The reply is a booking reply for guest g of the snapshot d.
IsBookingReplyFor(reply, g, d) ==
    \E h \in {Null} \cup {<<d.hotels[i]>> : i \in 1..Len(d.hotels)} :
        reply = <<BookingReply(g, h)>>

---------------------------------------------------------------------------
(* The booking lookup on one snapshot (SpecResolve).                       *)

\* C1: when the message mentions a phone whose digits are p and exactly one
\* guest of the roster has a stripped phone ending with p, the lookup returns
\* that guest, wherever it stands in the roster and whatever the phones of
\* the others.
C1_UniqueSuffixMatchIsReturned ==
    \A r \in ReqIds :
        Handled(r) /\ req[r].phoneMatch # Null =>
            LET p == StrippedPhone(req[r].phoneMatch[1])
                M == MatchingPositions(RosterOf(r), p)
            IN  Cardinality(M) = 1 =>
                    req[r].guestInfo = <<RosterOf(r)[Lowest(M)]>>

\* C1 happens: the only matching guest stands second, behind a guest with
\* another phone, and its stored phone is longer than the query.
C1_Witness ==
    \E r \in ReqIds :
        /\ Handled(r) /\ req[r].phoneMatch # Null
        /\ LET p == StrippedPhone(req[r].phoneMatch[1])
               M == MatchingPositions(RosterOf(r), p)
           IN  /\ M = {2}
               /\ Truthy(RosterOf(r)[1].phone)
               /\ Len(StrippedPhone(RosterOf(r)[2].phone)) > Len(p)
               /\ req[r].guestInfo = <<RosterOf(r)[2]>>

\* C2 as stated: for "my number is +91 98765 43210" and a roster holding a
\* guest with phone "9876543210", the captured phone normalizes to
\* "919876543210" and the reply is the no-booking notice.
C2_Original ==
    \A r \in ReqIds :
        /\ Handled(r)
        /\ req[r].userMessage = MsgMyNumber
        /\ \E i \in 1..Len(RosterOf(r)) : RosterOf(r)[i].phone = Ph10
        => /\ req[r].phoneMatch # Null
           /\ StrippedPhone(req[r].phoneMatch[1]) = Ph12
           /\ req[r].reply = <<NoBookingReply>>

\* C2 amended: "my number is +91 98765 43210" holds no 10 consecutive digits,
\* so no phone is captured and the request goes to the language model for
\* every roster; with the blanks removed ("my number is +919876543210") and a
\* roster holding a guest with phone "9876543210" and no guest whose phone
\* ends with "919876543210", the captured phone is "+919876543210", it
\* normalizes to "919876543210", and the reply is the no-booking notice.
C2_Amended ==
    \A r \in ReqIds :
        /\ Handled(r) /\ req[r].userMessage = MsgMyNumber
           => /\ req[r].phoneMatch = Null
              /\ req[r].guestInfo = Null
              /\ req[r].prompt # Null
              /\ req[r].reply # <<NoBookingReply>>
        /\ /\ Handled(r) /\ req[r].userMessage = MsgMyNumberPacked
           /\ \E i \in 1..Len(RosterOf(r)) : RosterOf(r)[i].phone = Ph10
           /\ MatchingPositions(RosterOf(r), Ph12) = {}
           => /\ req[r].phoneMatch = <<TokPlus \o Ph12>>
              /\ StrippedPhone(req[r].phoneMatch[1]) = Ph12
              /\ req[r].guestInfo = Null
              /\ req[r].prompt = Null
              /\ req[r].reply = <<NoBookingReply>>

\* C2 happens: the message with the blanks was handled on a roster holding
\* the guest with phone "9876543210", and went to the language model.
C2_Witness ==
    \E r \in ReqIds :
        /\ Handled(r)
        /\ req[r].userMessage = MsgMyNumber
        /\ \E i \in 1..Len(RosterOf(r)) : RosterOf(r)[i].phone = Ph10
        /\ req[r].pc = "completion"

\* C3: a message without 10 consecutive digits mentions no phone, for every
\* roster: the roster is not consulted, neither the booking reply nor the
\* no-booking notice is produced, and the completion API is called.
C3_NoDigitRunNoPhone ==
    \A r \in ReqIds :
        Handled(r) /\ ~HasPhoneRun(req[r].userMessage) =>
            /\ req[r].phoneMatch = Null
            /\ ~req[r].scanned
            /\ req[r].guestInfo = Null
            /\ req[r].prompt # Null
            /\ req[r].pc = "completion"
            /\ req[r].reply = Null

\* C3 happens: a message with digits, but no more than 9 in a row, was
\* handled on a roster with a guest whose phone is set.
C3_Witness ==
    \E r \in ReqIds :
        /\ Handled(r)
        /\ \E i \in 1..Len(req[r].userMessage) :
              DigitRun(req[r].userMessage, i) = MinDigits - 1
        /\ ~HasPhoneRun(req[r].userMessage)
        /\ \E i \in 1..Len(RosterOf(r)) : Truthy(RosterOf(r)[i].phone)
        /\ req[r].pc = "completion"

\* C4: the lookup returns the matching guest of lowest roster position, and
\* nobody when none matches; when at most one guest matches, every
\* reordering of the roster gives the same result.
C4_FirstMatchInRosterOrder ==
    \A r \in ReqIds :
        Handled(r) /\ req[r].phoneMatch # Null =>
            LET p == StrippedPhone(req[r].phoneMatch[1])
                M == MatchingPositions(RosterOf(r), p)
            IN  /\ M # {} => req[r].guestInfo = <<RosterOf(r)[Lowest(M)]>>
                /\ M = {} => req[r].guestInfo = Null
                /\ Cardinality(M) <= 1 =>
                      \A perm \in Reorderings(RosterOf(r)) :
                          LookupGuest(req[r].phoneMatch, perm) = req[r].guestInfo

\* C4 happens: two different guests match, the first was returned, and a
\* reordering of the roster returns the other.
C4_Witness ==
    \E r \in ReqIds :
        /\ Handled(r) /\ req[r].phoneMatch # Null
        /\ LET p == StrippedPhone(req[r].phoneMatch[1])
               M == MatchingPositions(RosterOf(r), p)
           IN  /\ Cardinality(M) >= 2
               /\ req[r].guestInfo = <<RosterOf(r)[Lowest(M)]>>
               /\ \E perm \in Reorderings(RosterOf(r)) :
                     LookupGuest(req[r].phoneMatch, perm) # req[r].guestInfo

\* The rosters a snapshot's roster is replaced by in C10.
OtherRosters == {g \in Rosters : Len(g) <= 1}

\* C10: the messages sent to the completion API do not depend on the roster:
\* the snapshot with any other roster and the same message gives the same
\* system prompt and user prompt.
C10_PromptIndependentOfGuests ==
    \A r \in ReqIds :
        req[r].prompt # Null =>
            \A g \in OtherRosters :
                LET d == [req[r].EVENT_DATA[1].val EXCEPT !.guests = g]
                IN  CompletionMessages(d, buildContextFromEventData(d),
                                       req[r].userMessage) = req[r].prompt[1]

\* C10 happens: the completion API was called on a snapshot whose roster
\* holds two guests, one with a phone and a note.
C10_Witness ==
    \E r \in ReqIds :
        /\ req[r].prompt # Null
        /\ Len(RosterOf(r)) >= 2
        /\ \E i \in 1..Len(RosterOf(r)) :
              Truthy(RosterOf(r)[i].phone) /\ Truthy(RosterOf(r)[i].notes)

---------------------------------------------------------------------------
(* The server under concurrent requests (Spec, SpecCache).                 *)

\* The ways a rebuild fails: a required URL is unset, a response is not ok,
\* the text of an ok response cannot be read or parsed.
RebuildFailures == {"config", "fetch", "body"}

\* The request ended in the catch block: HTTP 500 and the fixed apology.
EndedInApology(r) ==
    /\ req[r].status = FailureStatus
    /\ req[r].reply = <<ApologyReply>>

\* C5 as stated: every finished request carries one of the three replies,
\* chosen by the resolution outcome alone, and the completion API was called
\* exactly when the message mentions no phone.
C5_Original ==
    \A r \in ReqIds :
        req[r].pc = "done" =>
            LET mentioned == HasPhoneRun(req[r].userMessage)
            IN  /\ req[r].prompt # Null <=> ~mentioned
                /\ ~mentioned =>
                      req[r].reply \in {<<CompletionContent>>, <<FallbackReply>>}
                /\ mentioned =>
                      \/ req[r].reply = <<NoBookingReply>>
                      \/ /\ req[r].guestInfo # Null
                         /\ IsBookingReplyFor(req[r].reply, req[r].guestInfo[1],
                                              req[r].EVENT_DATA[1].val)

\* C5 amended: a finished request whose snapshot could not be loaded (a
\* required URL unset, a fetch not ok, a response whose text could not be
\* read or parsed) carries HTTP 500 and the fixed apology, and the completion
\* API was not called.  A finished request that was given
\* a snapshot carries: the no-booking notice when a phone is mentioned and no
\* guest matches (an empty roster, empty or missing phones included); when a
\* guest matches, the booking reply of the first matching guest, or HTTP 500
\* and the apology when the hotel search threw on a hotel without a name;
\* when no phone is mentioned, the completion's text, the fallback text, or
\* HTTP 500 and the apology when the completion call threw.  The completion
\* API is called exactly when a snapshot was given and no phone is mentioned.
C5_Amended ==
    \A r \in ReqIds :
        req[r].pc = "done" =>
            LET mentioned == HasPhoneRun(req[r].userMessage)
            IN  /\ req[r].prompt # Null <=> (Handled(r) /\ ~mentioned)
                /\ ~Handled(r) =>
                      /\ req[r].thrownBy \in RebuildFailures
                      /\ EndedInApology(r)
                /\ Handled(r) =>
                      LET d == req[r].EVENT_DATA[1].val
                          M == IF mentioned
                               THEN MatchingPositions(d.guests,
                                        StrippedPhone(req[r].phoneMatch[1]))
                               ELSE {}
                      IN  /\ mentioned /\ M = {} =>
                                /\ req[r].reply = <<NoBookingReply>>
                                /\ req[r].status = OkStatus
                          /\ mentioned /\ M # {} =>
                                \/ /\ IsBookingReplyFor(req[r].reply,
                                                        d.guests[Lowest(M)], d)
                                   /\ req[r].status = OkStatus
                                \/ /\ req[r].thrownBy = "handler"
                                   /\ \E i \in 1..Len(d.hotels) :
                                         d.hotels[i].name = Undefined
                                   /\ EndedInApology(r)
                          /\ ~mentioned =>
                                \/ /\ req[r].reply \in {<<CompletionContent>>,
                                                        <<FallbackReply>>}
                                   /\ req[r].status = OkStatus
                                \/ /\ req[r].thrownBy = "completion"
                                   /\ EndedInApology(r)

\* C5 happens: one request ended with a booking reply and another with the
\* completion's text.
C5_Witness ==
    \E a, b \in ReqIds :
        /\ req[a].pc = "done" /\ req[a].guestInfo # Null
        /\ req[a].status = OkStatus
        /\ req[b].pc = "done" /\ req[b].reply = <<CompletionContent>>

\* C6: a call of getEventData made while a snapshot is cached and younger
\* than the TTL returns that very snapshot, issues no fetch and leaves the
\* cache alone; a call made with no snapshot cached, or with an age of the
\* TTL or more, starts a rebuild: it issues the first fetch, or fails on the
\* missing URL.
C6_CacheWithinTTL ==
    [][\A r \in ReqIds :
          req[r].pc = "idle" /\ req'[r].pc # "idle" =>
              IF cachedEventData # Null /\ clock - lastLoadedMs < CACHE_TTL_MS
              THEN /\ req'[r].pc = "loaded"
                   /\ req'[r].EVENT_DATA = cachedEventData
                   /\ req'[r].fetched = <<>>
                   /\ UNCHANGED <<cachedEventData, lastLoadedMs>>
              ELSE /\ req'[r].EVENT_DATA = Null
                   /\ \/ req'[r].pc = "fetching" /\ req'[r].fetched = <<"meta">>
                      \/ req'[r].thrownBy = "config" /\ req'[r].fetched = <<>>
      ]_vars

\* C6 happens: a request was served from the cache, without a fetch, a
\* snapshot that is older than the sheets as they are now.
C6_Witness ==
    \E r \in ReqIds :
        /\ req[r].pc = "loaded"
        /\ req[r].fetched = <<>>
        /\ req[r].EVENT_DATA = cachedEventData
        /\ req[r].now > lastLoadedMs
        /\ req[r].EVENT_DATA[1].val #
              buildEventData(remote.meta, remote.events, remote.hotels, remote.guests)

\* C7: the roster and the hotels a request uses come from one snapshot, the
\* one getEventData returned to it, whatever was installed in the cache
\* meanwhile, and the prompt it sends is built from that snapshot.
C7_OneSnapshotPerRequest ==
    \A r \in ReqIds :
        Handled(r) =>
            /\ req[r].guestsFrom = req[r].hotelsFrom
            /\ req[r].guestsFrom = req[r].EVENT_DATA[1].obj
            /\ req[r].prompt # Null =>
                  req[r].prompt[1] =
                      CompletionMessages(req[r].EVENT_DATA[1].val,
                          buildContextFromEventData(req[r].EVENT_DATA[1].val),
                          req[r].userMessage)

\* C7 happens: a request still waiting for the completion API has used a
\* snapshot that another request's rebuild has replaced in the cache.
C7_Witness ==
    \E r \in ReqIds :
        /\ Handled(r)
        /\ req[r].pc = "completion"
        /\ cachedEventData # Null
        /\ cachedEventData[1].obj # req[r].guestsFrom
        /\ cachedEventData[1].val # req[r].EVENT_DATA[1].val

\* The fetches a request has issued are of different sheets.
NoRefetch(fetched) ==
    \A i, j \in 1..Len(fetched) : fetched[i] = fetched[j] => i = j

\* C8: the step in which a rebuild fails (a required URL unset, a response
\* not ok, and also the text of an ok response unreadable) ends the request
\* with HTTP 500 and the fixed apology and changes neither the cached
\* snapshot nor its timestamp; a missing required URL fails before any
\* fetch, the other failures after one; no sheet is fetched twice; the
\* failed request takes no further step; and no step of a request that has
\* not been given a snapshot changes the cache.
C8_FailedRebuild ==
    [][\A r \in ReqIds :
          /\ req[r].thrownBy = "none" /\ req'[r].thrownBy \in RebuildFailures =>
                /\ UNCHANGED <<cachedEventData, lastLoadedMs>>
                /\ req'[r].pc = "done"
                /\ req'[r].status = FailureStatus
                /\ req'[r].reply = <<ApologyReply>>
                /\ req'[r].prompt = Null
                /\ req'[r].thrownBy = "config" <=> (~env.meta \/ ~env.events)
                /\ req'[r].thrownBy = "config" => req'[r].fetched = <<>>
                /\ req'[r].thrownBy \in {"fetch", "body"} =>
                      req'[r].fetched # <<>> /\ NoRefetch(req'[r].fetched)
          /\ req[r].thrownBy \in RebuildFailures => req'[r] = req[r]
          /\ req'[r] # req[r] /\ req'[r].EVENT_DATA = Null =>
                UNCHANGED <<cachedEventData, lastLoadedMs>>
      ]_vars

\* C8 happens: a request failed on its third fetch while the cache held a
\* snapshot installed by another request.
C8_Witness ==
    \E r \in ReqIds :
        /\ req[r].thrownBy = "fetch"
        /\ Len(req[r].fetched) = 3
        /\ cachedEventData # Null
        /\ lastLoadedMs > 0

\* C9 as stated: lastLoadedMs never decreases, a cached snapshot is never
\* replaced by one whose rebuild started earlier, and lastLoadedMs is the
\* start time of the rebuild that produced the cached snapshot.
C9_Original ==
    [][/\ lastLoadedMs' >= lastLoadedMs
       /\ cachedEventData # Null /\ cachedEventData' # cachedEventData =>
             req'[cachedEventData'[1].obj].now >= req[cachedEventData[1].obj].now
       /\ cachedEventData' # Null =>
             lastLoadedMs' = req'[cachedEventData'[1].obj].now
      ]_vars

\* C9 amended: of concurrent rebuilds the one that finishes last stays in the
\* cache, also when it started earlier, so lastLoadedMs can decrease; at all
\* times lastLoadedMs is the start time of the rebuild that produced the
\* cached snapshot, and the cached snapshot is the one that rebuild returned.
C9_Amended ==
    cachedEventData # Null =>
        /\ lastLoadedMs = req[cachedEventData[1].obj].now
        /\ cachedEventData = req[cachedEventData[1].obj].data
        /\ req[cachedEventData[1].obj].pc \in {"loaded", "completion", "done"}

\* C9 happens: the cache holds the snapshot of a rebuild that started while
\* the clock stood lower than at the start of another rebuild, which was
\* installed too, and the clock has moved on since both started.
C9_Witness ==
    \E a, b \in ReqIds :
        /\ cachedEventData # Null
        /\ cachedEventData[1].obj = a
        /\ req[b].data # Null
        /\ req[b].EVENT_DATA = req[b].data
        /\ req[b].now > req[a].now
        /\ clock > req[b].now

====
